---- MODULE Spec2Model ----
(***************************************************************************)
(* A model of expenses.py: the pydblite store behind the module-level      *)
(* handle db, the wall clock read once per run into today, and the six     *)
(* sub-commands add, delete, change, list, average and compare.  Every     *)
(* action is one run of the command-line program.                          *)
(*                                                                         *)
(* A datetime is an integer count of ticks, TicksPerDay ticks to the day,  *)
(* so that the time of day of a stored date and of the reference moment is *)
(* part of the state.  A command-line string is a record that says what    *)
(* the string looks like (a word, a decimal number, a DD.MM.YYYY date, a   *)
(* run of digits) and what it denotes.  A Decimal is an integer amount.    *)
(***************************************************************************)
EXTENDS Integers, Sequences, FiniteSets, TLC

VARIABLES db, next_id, now, out

vars == <<db, next_id, now, out>>

----------------------------------------------------------------------------
(* Bounds of the model *)

TicksPerDay == 2
MaxEntries == 2
MaxTicks == 1
MaxTags == 2

----------------------------------------------------------------------------
(* Constants of the program *)

days_per_month == 30

date_format == "dmy"

----------------------------------------------------------------------------
(* Inputs: the command-line strings the runs are given *)

LabelOrder == <<"all", "food">>

Labels == {LabelOrder[i] : i \in 1..Len(LabelOrder)}

Word(w) == [kind |-> "word", num |-> 0, word |-> w]

Dmy(d) == [kind |-> "dmy", num |-> d, word |-> ""]

DecimalStr(c) == [kind |-> "decimal", num |-> c, word |-> ""]

Digits(n) == [kind |-> "digits", num |-> n, word |-> ""]

StartDay == days_per_month + 10

StartTick == StartDay * TicksPerDay + (TicksPerDay - 1)

DateDays == {StartDay - days_per_month, StartDay + 1}

Costs == {1, 2}

NameArgs == {Word(l) : l \in Labels}

CostArgs == {DecimalStr(c) : c \in Costs} \cup {Word("food")}

DateArgs ==
    {<<>>} \cup {<<Dmy(d)>> : d \in DateDays} \cup {<<Digits(0)>>, <<Word("food")>>}

EntryTags == {"food"}

EntryTagArgs == {<<>>} \cup {<<Word(l)>> : l \in EntryTags}

Token(n, l) == [slashes |-> n, body |-> l]

Tokens == {Token(n, l) : n \in 0..1, l \in Labels}

SeqsUpTo(S, n) == UNION {[1..k -> S] : k \in 0..n}

TagArgs == SeqsUpTo(Tokens, MaxTags)

DaysArgs == {<<>>, <<0>>, <<days_per_month + 2>>}

SortArgs == {<<>>, <<"">>, <<"name">>, <<"cost">>, <<"date">>, <<"id">>}

\* the (col, val) pairs given to change: a value of the column's kind, a string
\* the column cannot take, no value at all, and a column that does not exist
ChangeArgs ==
    ({"name"} \X ({<<Word(l)>> : l \in Labels} \cup {<<>>}))
        \cup ({"cost"} \X ({<<DecimalStr(c)>> : c \in Costs} \cup {<<Word("food")>>}))
        \cup ({"date"} \X ({<<Dmy(d)>> : d \in DateDays} \cup {<<Digits(0)>>}))
        \cup ({"tags"} \X EntryTagArgs)
        \cup ({"id"} \X {<<Digits(0)>>})

Ids == 0..(MaxEntries - 1)

----------------------------------------------------------------------------
(* Library behaviour the program relies on *)

\* bool(x) of an optional argument: None and the empty list are false
Given(arg) == Len(arg) > 0

\* datetime.strptime(s, date_format): midnight of the day the string names
strptime_ok(s) == s.kind = date_format

strptime(s) == s.num * TicksPerDay

\* a list of argument strings as the list of the words they are
words(val) == [k \in 1..Len(val) |-> val[k].word]

\* str.isdigit
isdigit(s) == s.kind = "digits"

\* Decimal(s)
Decimal_ok(s) == s.kind \in {"decimal", "digits"}

Decimal(s) == s.num

\* timedelta(days=n)
timedelta(n) == n * TicksPerDay

\* timedelta.days: the floor of the difference in whole days
DaysOf(delta) == delta \div TicksPerDay

\* str.startswith('/') and str.lstrip('/') of a tag token
startswith_slash(tag) == tag.slashes > 0

lstrip_slash(tag) == tag.body

\* comparison of str values
StrRank(s) == CHOOSE i \in 1..Len(LabelOrder) : LabelOrder[i] = s

\* iteration over the store: the records in the order of their insertion
RECURSIVE Ascending(_)
Ascending(S) ==
    IF S = {} THEN <<>>
    ELSE LET m == CHOOSE x \in S : \A y \in S : x <= y
         IN <<m>> \o Ascending(S \ {m})

DbIter == Ascending(DOMAIN db)

\* what a run leaves behind: the command, the exception that ended it ("" when
\* none did), the arguments and reference moment of a query and what it produced;
\* a store command leaves the query fields empty
Result(cmd, err) ==
    [cmd |-> cmd, err |-> err, today |-> 0, days_arg |-> <<>>, sort_arg |-> <<>>,
     tags_arg |-> <<>>, days |-> 0, listed |-> <<>>, total |-> 0,
     series |-> <<>>, bars |-> <<>>]

\* no run is in progress
Idle == Result("", "")

----------------------------------------------------------------------------
(* The store commands *)

Init ==
    /\ db = <<>>
    /\ next_id = 0
    /\ now = StartTick
    /\ out = Idle

\* the wall clock advances between runs
Tick ==
    /\ out = Idle
    /\ now < StartTick + MaxTicks
    /\ now' = now + 1
    /\ UNCHANGED <<db, next_id, out>>

add_date_ok(date_arg) ==
    ~Given(date_arg) \/ strptime_ok(date_arg[1]) \/ isdigit(date_arg[1])

add_date(date_arg, today) ==
    IF ~Given(date_arg) THEN today
    ELSE IF strptime_ok(date_arg[1]) THEN strptime(date_arg[1])
    ELSE today - timedelta(date_arg[1].num)

add_entry(name, cost, date_arg, tags_arg) ==
    LET today == now IN
    /\ out = Idle
    /\ next_id < MaxEntries
    /\ IF ~add_date_ok(date_arg)
       THEN /\ out' = Result("add", "ValueError")
            /\ UNCHANGED <<db, next_id>>
       ELSE IF ~Decimal_ok(cost)
       THEN /\ out' = Result("add", "InvalidOperation")
            /\ UNCHANGED <<db, next_id>>
       ELSE /\ db' = [i \in DOMAIN db \cup {next_id} |->
                        IF i = next_id
                        THEN [name |-> name.word, cost |-> Decimal(cost),
                              date |-> add_date(date_arg, today),
                              tags |-> words(tags_arg)]
                        ELSE db[i]]
            /\ next_id' = next_id + 1
            /\ out' = Result("add", "")
    /\ UNCHANGED now

delete_entry(id, confirm) ==
    /\ out = Idle
    /\ IF confirm = "y"
       THEN IF id \in DOMAIN db
            THEN /\ db' = [i \in DOMAIN db \ {id} |-> db[i]]
                 /\ out' = Result("delete", "")
            ELSE /\ out' = Result("delete", "KeyError")
                 /\ UNCHANGED db
       ELSE /\ out' = Result("delete", "")
            /\ UNCHANGED db
    /\ UNCHANGED <<next_id, now>>

change_error(id, col, val) ==
    IF col # "tags" /\ Len(val) # 1 THEN "AssertionError"
    ELSE IF col \notin {"name", "cost", "date", "tags"} THEN "AssertionError"
    ELSE IF col = "cost" /\ ~Decimal_ok(val[1]) THEN "InvalidOperation"
    ELSE IF col = "date" /\ ~strptime_ok(val[1]) THEN "ValueError"
    ELSE IF id \notin DOMAIN db THEN "KeyError"
    ELSE ""

change_value(entry, col, val) ==
    CASE col = "name" -> [entry EXCEPT !.name = val[1].word]
      [] col = "cost" -> [entry EXCEPT !.cost = Decimal(val[1])]
      [] col = "date" -> [entry EXCEPT !.date = strptime(val[1])]
      [] col = "tags" -> [entry EXCEPT !.tags = words(val)]

change_entry(id, col, val) ==
    /\ out = Idle
    /\ IF change_error(id, col, val) # ""
       THEN /\ out' = Result("change", change_error(id, col, val))
            /\ UNCHANGED db
       ELSE /\ db' = [db EXCEPT ![id] = change_value(db[id], col, val)]
            /\ out' = Result("change", "")
    /\ UNCHANGED <<next_id, now>>

\* the process of a run ends; the next run starts from the stored database
exit ==
    /\ out # Idle
    /\ out' = Idle
    /\ UNCHANGED <<db, next_id, now>>

----------------------------------------------------------------------------
(* Helpers of the queries *)

\* the values of a sequence
Range(s) == {s[i] : i \in 1..Len(s)}

\* bool(args.days) and bool(args.sort): 0 and '' are false like None
TruthyInt(arg) == Given(arg) /\ arg[1] # 0

TruthyStr(arg) == Given(arg) /\ arg[1] # ""

\* a token that starts with '/' goes to exclude_tags without its slashes,
\* any other token goes to include_tags as it is
IsInclude(tag) == ~startswith_slash(tag)

IsExclude(tag) == startswith_slash(tag)

include_tags(tags_arg) ==
    LET kept == SelectSeq(tags_arg, IsInclude)
    IN [i \in 1..Len(kept) |-> kept[i].body]

exclude_tags(tags_arg) ==
    LET kept == SelectSeq(tags_arg, IsExclude)
    IN [i \in 1..Len(kept) |-> lstrip_slash(kept[i])]

\* tag in entry['tags'] + [entry['name']]
tag_in(tag, entry) ==
    LET labels == entry.tags \o <<entry.name>>
    IN \E j \in 1..Len(labels) : labels[j] = tag

\* any(tag in entry['tags'] + [entry['name']] for tag in tags)
any_tag_in(tags, entry) == \E i \in 1..Len(tags) : tag_in(tags[i], entry)

\* (today - entry['date']).days
offset(today, entry) == DaysOf(today - entry.date)

\* x[sort_key] as a number that orders like the value
key_of(entry, sort_key) ==
    CASE sort_key = "name" -> StrRank(entry.name)
      [] sort_key = "cost" -> entry.cost
      [] sort_key = "date" -> entry.date

\* sorted(ids, key=...): a stable sort, here by insertion behind the equal keys
RECURSIVE insert_sorted(_, _, _)
insert_sorted(ids, id, sort_key) ==
    IF ids = <<>> THEN <<id>>
    ELSE IF key_of(db[Head(ids)], sort_key) <= key_of(db[id], sort_key)
    THEN <<Head(ids)>> \o insert_sorted(Tail(ids), id, sort_key)
    ELSE <<id>> \o ids

RECURSIVE sorted(_, _)
sorted(ids, sort_key) ==
    IF ids = <<>> THEN <<>>
    ELSE insert_sorted(sorted(SubSeq(ids, 1, Len(ids) - 1), sort_key),
                       ids[Len(ids)], sort_key)

----------------------------------------------------------------------------
(* list *)

list_default_days == 30

\* the exclude test as an elif of the include test
list_skips_elif(entry, include, exclude) ==
    IF include # <<>> THEN ~any_tag_in(include, entry)
    ELSE exclude # <<>> /\ any_tag_in(exclude, entry)

\* the two continue statements of the loop
list_skips(entry, include, exclude) ==
    \/ include # <<>> /\ ~any_tag_in(include, entry)
    \/ exclude # <<>> /\ any_tag_in(exclude, entry)

\* the loop: the entries printed, in order, and the total
RECURSIVE list_loop(_, _, _)
list_loop(ids, include, exclude) ==
    IF ids = <<>> THEN [listed |-> <<>>, total |-> 0]
    ELSE LET rest == list_loop(Tail(ids), include, exclude)
             entry == db[Head(ids)]
         IN IF list_skips(entry, include, exclude) THEN rest
            ELSE [listed |-> <<Head(ids)>> \o rest.listed,
                  total |-> entry.cost + rest.total]

list_entries(days_arg, sort_arg, tags_arg) ==
    LET today == now
        days == IF TruthyInt(days_arg) THEN days_arg[1] ELSE list_default_days
        sort_key == IF TruthyStr(sort_arg) THEN sort_arg[1] ELSE "date"
        include == include_tags(tags_arg)
        exclude == exclude_tags(tags_arg)
        InDays(id) == offset(today, db[id]) <= days
        loop == list_loop(sorted(SelectSeq(DbIter, InDays), sort_key), include, exclude)
        query == [Result("list", "") EXCEPT !.today = today, !.days_arg = days_arg,
                     !.sort_arg = sort_arg, !.tags_arg = tags_arg, !.days = days]
    IN
    /\ out = Idle
    /\ IF TruthyStr(sort_arg) /\ sort_arg[1] \notin {"name", "cost", "date"}
       THEN out' = [query EXCEPT !.err = "AssertionError"]
       ELSE out' = [query EXCEPT !.listed = loop.listed, !.total = loop.total]
    /\ UNCHANGED <<db, next_id, now>>

----------------------------------------------------------------------------
(* average *)

\* a bucket test that knows no synthetic bucket
bucket_takes_labelled_only(tag, entry) == tag_in(tag, entry)

\* tag == "all" or tag in entry['tags'] + [entry['name']]
bucket_takes(tag, entry) == tag = "all" \/ tag_in(tag, entry)

\* for tag in include_tags: if ...: total_cost[tag] += entry['cost']
RECURSIVE add_to_buckets(_, _, _)
add_to_buckets(total_cost, entry, tags) ==
    IF tags = <<>> THEN total_cost
    ELSE LET tag == Head(tags)
             added == IF bucket_takes(tag, entry)
                      THEN [total_cost EXCEPT ![tag] = @ + entry.cost]
                      ELSE total_cost
         IN add_to_buckets(added, entry, Tail(tags))

\* the loop over the entries of one window
RECURSIVE average_loop(_, _, _, _)
average_loop(total_cost, ids, include, exclude) ==
    IF ids = <<>> THEN total_cost
    ELSE LET entry == db[Head(ids)]
             added == IF exclude # <<>> /\ any_tag_in(exclude, entry)
                      THEN total_cost
                      ELSE add_to_buckets(total_cost, entry, include)
         IN average_loop(added, Tail(ids), include, exclude)

\* total_cost of one value of current_day
average_costs_at(current_day, today, include, exclude) ==
    LET InWindow(id) ==
            /\ current_day <= offset(today, db[id])
            /\ offset(today, db[id]) <= days_per_month + current_day
    IN average_loop([tag \in Range(include) |-> 0],
                    sorted(SelectSeq(DbIter, InWindow), "date"), include, exclude)

\* the run up to the end of the loop that fills average_costs; the fit and the plot
\* that follow only draw that list
plot_average(days_arg, tags_arg) ==
    LET today == now
        days == IF TruthyInt(days_arg) THEN days_arg[1]
                ELSE offset(today, db[0]) - days_per_month
        given == include_tags(tags_arg)
        include == IF given = <<>> THEN <<"all">> ELSE given
        exclude == exclude_tags(tags_arg)
        query == [Result("average", "") EXCEPT !.today = today, !.days_arg = days_arg,
                     !.tags_arg = tags_arg]
    IN
    /\ out = Idle
    /\ IF ~TruthyInt(days_arg) /\ 0 \notin DOMAIN db
       THEN out' = [query EXCEPT !.err = "KeyError"]
       ELSE out' = [query EXCEPT !.days = days,
                       !.series = [k \in 1..days |->
                                     average_costs_at(k - 1, today, include, exclude)]]
    /\ UNCHANGED <<db, next_id, now>>

----------------------------------------------------------------------------
(* compare *)

compare_default_days == 30

\* for tag in include_tags: if tag in labels: total_cost[tag] += cost
RECURSIVE compare_add(_, _, _)
compare_add(total_cost, entry, tags) ==
    IF tags = <<>> THEN total_cost
    ELSE LET tag == Head(tags)
             added == IF tag_in(tag, entry)
                      THEN [total_cost EXCEPT ![tag] = @ + entry.cost]
                      ELSE total_cost
         IN compare_add(added, entry, Tail(tags))

RECURSIVE compare_loop(_, _, _, _)
compare_loop(total_cost, ids, include, exclude) ==
    IF ids = <<>> THEN total_cost
    ELSE LET entry == db[Head(ids)]
             added == IF exclude # <<>> /\ any_tag_in(exclude, entry)
                      THEN total_cost
                      ELSE compare_add(total_cost, entry, include)
         IN compare_loop(added, Tail(ids), include, exclude)

\* a compare that builds the labels of an entry by appending to its tags in place
compare_appending(days_arg, tags_arg) ==
    /\ out = Idle
    /\ out' = [Result("compare", "") EXCEPT !.today = now, !.days_arg = days_arg,
                  !.tags_arg = tags_arg]
    /\ db' = [id \in DOMAIN db |-> [db[id] EXCEPT !.tags = @ \o <<db[id].name>>]]
    /\ UNCHANGED <<next_id, now>>

\* the run up to y, the list of bar heights; the plot that follows only draws it
compare(days_arg, tags_arg) ==
    LET today == now
        days == IF TruthyInt(days_arg) THEN days_arg[1] ELSE compare_default_days
        include == include_tags(tags_arg)
        exclude == exclude_tags(tags_arg)
        InWindow(id) == 0 <= offset(today, db[id]) /\ offset(today, db[id]) <= days
        total_cost == compare_loop([tag \in Range(include) |-> 0],
                                   sorted(SelectSeq(DbIter, InWindow), "date"),
                                   include, exclude)
        query == [Result("compare", "") EXCEPT !.today = today, !.days_arg = days_arg,
                     !.tags_arg = tags_arg, !.days = days]
    IN
    /\ out = Idle
    /\ IF Len(include) = 0
       THEN out' = [query EXCEPT !.err = "AssertionError"]
       ELSE out' = [query EXCEPT !.bars = [i \in 1..Len(include) |-> total_cost[include[i]]]]
    /\ UNCHANGED <<db, next_id, now>>

----------------------------------------------------------------------------
(* Specifications *)

StoreNext ==
    \/ Tick
    \/ exit
    \/ \E name \in NameArgs, cost \in CostArgs, date_arg \in DateArgs,
          tags_arg \in EntryTagArgs : add_entry(name, cost, date_arg, tags_arg)
    \/ \E id \in Ids, confirm \in {"y", "n"} : delete_entry(id, confirm)
    \/ \E id \in Ids, a \in ChangeArgs : change_entry(id, a[1], a[2])

ListNext ==
    \/ StoreNext
    \/ \E days_arg \in DaysArgs, sort_arg \in SortArgs, tags_arg \in TagArgs :
          list_entries(days_arg, sort_arg, tags_arg)

AverageNext ==
    \/ StoreNext
    \/ \E days_arg \in DaysArgs, tags_arg \in TagArgs : plot_average(days_arg, tags_arg)

CompareNext ==
    \/ StoreNext
    \/ \E days_arg \in DaysArgs, tags_arg \in TagArgs : compare(days_arg, tags_arg)

Next ==
    \/ StoreNext
    \/ \E days_arg \in DaysArgs, sort_arg \in SortArgs, tags_arg \in TagArgs :
          list_entries(days_arg, sort_arg, tags_arg)
    \/ \E days_arg \in DaysArgs, tags_arg \in TagArgs : plot_average(days_arg, tags_arg)
    \/ \E days_arg \in DaysArgs, tags_arg \in TagArgs : compare(days_arg, tags_arg)

\* the store commands and the list command
ListSpec == Init /\ [][ListNext]_vars

\* the store commands and the average command
AverageSpec == Init /\ [][AverageNext]_vars

\* the store commands and the compare command
CompareSpec == Init /\ [][CompareNext]_vars

\* all six commands
Spec == Init /\ [][Next]_vars

----------------------------------------------------------------------------
(* The vocabulary of the properties, defined from sets and not from the loops *)

Queries == {"list", "average", "compare"}

\* the effective label set of an entry: its tags plus its name
LabelSet(entry) == Range(entry.tags) \cup {entry.name}

\* the include and the exclude labels of the filter the run was given
IncludeSet == {t.body : t \in {x \in Range(out.tags_arg) : x.slashes = 0}}

ExcludeSet == {t.body : t \in {x \in Range(out.tags_arg) : x.slashes > 0}}

IsPlain(t) == t.slashes = 0

\* the include tags in the order they were supplied
IncludeList == SelectSeq(out.tags_arg, IsPlain)

NotExcluded(id) == LabelSet(db[id]) \cap ExcludeSet = {}

\* (referenceDay - date).days of a stored entry, for the run that produced out
Off(id) == (out.today - db[id].date) \div TicksPerDay

\* the difference of the calendar dates, the time of day left out
CalendarOff(id) == (out.today \div TicksPerDay) - (db[id].date \div TicksPerDay)

\* the number of days the caller asked for, or the default of 30
AskedDays == IF Given(out.days_arg) THEN out.days_arg[1] ELSE 30

RECURSIVE SumCost(_)
SumCost(S) ==
    IF S = {} THEN 0
    ELSE LET id == CHOOSE x \in S : TRUE IN db[id].cost + SumCost(S \ {id})

Listed == Range(out.listed)

\* the entries of the window [lo, hi] that the exclude list leaves
InWindow(lo, hi) == {id \in DOMAIN db : NotExcluded(id) /\ lo <= Off(id) /\ Off(id) <= hi}

----------------------------------------------------------------------------
(* Properties *)

\* C1: in the list view an entry is listed and counted in the total only if
\* include is empty or shares a label with the entry's tags plus name, and
\* exclude shares none; an entry matching both an include and an exclude label
\* is rejected; with both lists empty every entry of the window is listed.
C1_TagMatching ==
    (out.cmd = "list" /\ out.err = "") =>
        /\ Listed \subseteq DOMAIN db
        /\ Len(out.listed) = Cardinality(Listed)
        /\ out.total = SumCost(Listed)
        /\ \A id \in Listed :
              /\ IncludeSet = {} \/ LabelSet(db[id]) \cap IncludeSet # {}
              /\ LabelSet(db[id]) \cap ExcludeSet = {}
        /\ (IncludeSet = {} /\ ExcludeSet = {}) =>
              \A id \in DOMAIN db : (0 <= Off(id) /\ Off(id) <= AskedDays) => id \in Listed

\* a list run that rejects an entry matching an include and an exclude label
\* and lists another entry
C1_Witness ==
    /\ out.cmd = "list" /\ out.err = ""
    /\ Listed # {}
    /\ \E id \in DOMAIN db \ Listed :
          /\ LabelSet(db[id]) \cap IncludeSet # {}
          /\ LabelSet(db[id]) \cap ExcludeSet # {}
          /\ 0 <= Off(id) /\ Off(id) <= AskedDays

\* C2: with a non-empty include list the buckets of every offset of the average
\* view are exactly the include tags, and the bucket of tag t at offset k holds
\* the sum of cost over the entries not excluded, in the window [k, 30 + k],
\* whose tags plus name contain t, each added once.
C2_ExplicitBuckets ==
    (out.cmd = "average" /\ out.err = "" /\ IncludeSet # {}) =>
        \A k \in 1..Len(out.series) :
            /\ DOMAIN out.series[k] = IncludeSet
            /\ \A t \in IncludeSet :
                  out.series[k][t] =
                      SumCost({id \in InWindow(k - 1, days_per_month + k - 1) :
                                  t \in LabelSet(db[id])})

\* C3: with an empty include list every offset k of the average view has the
\* single bucket "all", holding the sum of cost over the entries not excluded
\* with k <= offset <= 30 + k, each counted once at every offset whose window
\* holds it.
C3_Conservation ==
    (out.cmd = "average" /\ out.err = "" /\ IncludeSet = {}) =>
        \A k \in 1..Len(out.series) :
            /\ DOMAIN out.series[k] = {"all"}
            /\ out.series[k]["all"] = SumCost(InWindow(k - 1, days_per_month + k - 1))

\* an average run without include tags where an entry without the label "all"
\* lies in the windows of offsets 0 and 1 and another entry is excluded
C3_Witness ==
    /\ out.cmd = "average" /\ out.err = "" /\ IncludeSet = {}
    /\ Len(out.series) >= 2
    /\ \E id \in InWindow(1, days_per_month) : "all" \notin LabelSet(db[id])
    /\ \E id \in DOMAIN db : ~NotExcluded(id)
    /\ out.series[1]["all"] > 0 /\ out.series[2]["all"] > 0

\* C4: when the caller gives totalDays, the series of the average view has
\* totalDays - 30 entries (32 gives 2).
C4_SeriesLength ==
    (out.cmd = "average" /\ out.err = "" /\ Given(out.days_arg)
        /\ out.days_arg[1] > days_per_month) =>
        Len(out.series) = out.days_arg[1] - days_per_month

\* C5: an entry appears in the list view only if its offset lies in the window
\* [0, days] the caller asked for (days = 0 included); an entry dated after the
\* reference day is never listed.
C5_ListWindow ==
    (out.cmd = "list" /\ out.err = "") =>
        \A id \in Listed : 0 <= Off(id) /\ Off(id) <= AskedDays

\* C6: the compare view gives one total per include tag, in the order supplied:
\* the sum of cost over the entries not excluded, with 0 <= offset <= totalDays,
\* whose tags plus name contain the tag; without include tags it ends in an
\* error and gives nothing.
C6_Compare ==
    out.cmd = "compare" =>
        IF IncludeList = <<>>
        THEN out.err # "" /\ out.bars = <<>>
        ELSE /\ out.err = ""
             /\ Len(out.bars) = Len(IncludeList)
             /\ \A i \in 1..Len(IncludeList) :
                   out.bars[i] =
                       SumCost({id \in InWindow(0, AskedDays) :
                                   IncludeList[i].body \in LabelSet(db[id])})

\* C7: without totalDays, on a non-empty store, the number of offsets of the
\* average view is the offset of the oldest stored entry minus 30.
C7_DefaultSpan ==
    (out.cmd = "average" /\ ~Given(out.days_arg) /\ DOMAIN db # {}) =>
        /\ out.err = ""
        /\ \E oldest \in DOMAIN db :
              /\ \A id \in DOMAIN db : db[oldest].date <= db[id].date
              /\ out.days = Off(oldest) - days_per_month

\* C8: the offset a query uses for an entry is the difference of the calendar
\* dates of the reference day and of the entry, whatever their times of day, so
\* the queries select by that difference.
C8_DayGranularity ==
    /\ (out.cmd = "list" /\ out.err = "" /\ out.tags_arg = <<>>) =>
          Listed = {id \in DOMAIN db : CalendarOff(id) <= out.days}
    /\ (out.cmd = "average" /\ out.err = "" /\ IncludeSet = {}) =>
          \A k \in 1..Len(out.series) :
              out.series[k]["all"] =
                  SumCost({id \in DOMAIN db :
                              /\ NotExcluded(id)
                              /\ k - 1 <= CalendarOff(id)
                              /\ CalendarOff(id) <= days_per_month + k - 1})
    /\ (out.cmd = "compare" /\ out.err = "" /\ Len(IncludeList) = 1) =>
          out.bars[1] =
              SumCost({id \in DOMAIN db :
                          /\ NotExcluded(id)
                          /\ 0 <= CalendarOff(id) /\ CalendarOff(id) <= out.days
                          /\ IncludeList[1].body \in LabelSet(db[id])})

\* C9: a list, average or compare run, ended by an error or not, leaves the
\* stored entries and every field of them as they were, and evaluates every
\* entry against the one reference moment read at its start.
C9_QueriesDoNotMutate ==
    [][out'.cmd \in Queries =>
          /\ db' = db
          /\ next_id' = next_id
          /\ out'.today = now]_vars

\* a query that ended in an error on a store that holds entries
C9_Witness ==
    /\ out.cmd \in Queries /\ out.err # ""
    /\ DOMAIN db # {}

\* C10: the list view is in ascending order of the sort key (name, cost or
\* date), equal keys in the order of store iteration, the total is the sum of
\* cost over the listed entries, and a sort key outside {name, cost, date} is an
\* error with nothing listed.
C10_ListOrder ==
    out.cmd = "list" =>
        IF Given(out.sort_arg) /\ out.sort_arg[1] \notin {"name", "cost", "date"}
        THEN out.err # "" /\ out.listed = <<>>
        ELSE LET key == IF Given(out.sort_arg) THEN out.sort_arg[1] ELSE "date"
                 KeyOf(id) == CASE key = "name" -> StrRank(db[id].name)
                                [] key = "cost" -> db[id].cost
                                [] key = "date" -> db[id].date
             IN /\ out.err = ""
                /\ \A i, j \in 1..Len(out.listed) :
                      i < j => \/ KeyOf(out.listed[i]) < KeyOf(out.listed[j])
                               \/ /\ KeyOf(out.listed[i]) = KeyOf(out.listed[j])
                                  /\ out.listed[i] < out.listed[j]
                /\ out.total = SumCost(Listed)

====
